---- MODULE Spec2Model ----
(***************************************************************************)
(* Session credential lifecycle and retry orchestration of the e-commerce  *)
(* chatbot backend.                                                         *)
(*                                                                          *)
(*   CookieManagementSystem   src/cookie-management-system.js (1-227)       *)
(*   ErrorRecoverySystem      src/unnamed/part_008                          *)
(*   withErrorRecovery        src/unnamed/part_013                          *)
(*   Scheduler                src/cookie-management-system/refresh-cookies.js*)
(*                                                                          *)
(* JavaScript runs every piece of code between two awaits to completion,    *)
(* so each action below is one such piece: the code from one suspension     *)
(* point to the next.  Times are milliseconds as in the source.  The clock  *)
(* advances only while no caller sits at a continuation that the event loop *)
(* runs as a microtask (the awaits on already-settled promises inside       *)
(* getLatestCookies / refreshCookies); it does advance during HTTP          *)
(* requests, credential extraction and timers.                              *)
(***************************************************************************)
EXTENDS Integers, Sequences, FiniteSets, TLC

\* ---------------------------------------------------------------- bounds
NumCallers == 2
MaxTicks == 5
MaxSchedTasks == 2
MaxRetryCount == 7
MaxRows == 2
MaxRequests == 3
MaxLogged == 102

\* ------------------------------------------------------ program constants
maxRetries == 3
defaultMaxAge == 24 * 60 * 60 * 1000
Lookahead == 10 * 60 * 1000
StaleWindow == 30 * 60 * 1000
ShortMaxAge == 20 * 60 * 1000
schedulerMaxRetries == 3
baseRetryDelay == 1000
maxRetryDelay == 60000
MAX_RECENT_ERRORS == 100

Platforms == {"motonet"}
\* Object.keys(config.platforms), two of them
SchedPlatforms == {"motonet", "gigantti"}
JobNames == SchedPlatforms \cup {"cleanup"}
Slots == 1..MaxSchedTasks
Operations == {"addToCart"}
Callers == 1..NumCallers
ErrorKinds == {"authentication", "rateLimiting", "server", "network", "unknown"}

\* process.env.<PLATFORM>_COOKIE: unset, or a cookie string
NoCookie == ""
EnvCookieValues == {NoCookie, "A"}
\* process.env.<PLATFORM>_COOKIE_MAX_AGE: unset (0) or 20 minutes
MaxAgeEnvValues == {0, ShortMaxAge}

\* the clock is observed every ten minutes, MaxTicks times
ClockStep == 10 * 60 * 1000

Undefined == -1
NoRecord == [cookieString |-> NoCookie, timestamp |-> Undefined, expiresAt |-> Undefined]

VARIABLES
  now,              \* Date.now()
  env,              \* process.env.<PLATFORM>_COOKIE per platform
  maxAgeEnv,        \* process.env.<PLATFORM>_COOKIE_MAX_AGE per platform
  cookies,          \* CookieManagementSystem.cookies
  lastRefreshTime,  \* CookieManagementSystem.lastRefreshTime
  retryCounters,    \* ErrorRecoverySystem.retryCounters
  pc,               \* position of each wrapped call
  phase,            \* "first" attempt, or the retry callback: "retry", "authRetry"
  initialized,      \* result of the last initializeCookies the call awaited
  errKind,          \* determineErrorType of the failure being handled
  replaced,         \* a new record object was stored since the call's authentication failure
  refreshOk,        \* outcome of refreshPlatformCookies in handleAuthenticationError
  invocations,      \* invocations of the wrapped method in the current call
  failures,         \* failed invocations of the wrapped method in the current call
  result,           \* how the current call ended
  rpc,              \* position of a forceRefreshCookies / auto-refresh call
  rinit,            \* result of its initializeCookies
  running,          \* Scheduler.running
  jobs,             \* Scheduler.jobs: the names of the registered cron jobs
  spc,              \* position of each Scheduler.refreshCookies call
  sretries,         \* its local `retries`
  scall,            \* what the call has done so far and its local `lastError`
  cronTasks,        \* per job name, the node-cron tasks scheduled and not stopped
  failure,          \* the value a wrapped method threw (the `error` of handleError)
  fnPlatform,       \* the `platform` argument that goes with it
  errorType,        \* what determineErrorType returned for it
  retryDelay,       \* the delay a recovery handler waits before its retry
  delaySource,      \* where that delay came from: a response header or the backoff
  thrown,           \* the error handleError threw at the ceiling
  thrownType,       \* the errorType handleError had determined when it threw
  rows,             \* Database: the rows of table cookies, in rowid order
  dbResult,         \* what the last Database.getLatestCookies resolved to
  lastStore,        \* the arguments and time of the last Database.storeCookies
  currentPlatform,  \* server.js: currentPlatform
  response,         \* the last response of POST /api/switch-platform
  cart,             \* the POST /api/add-to-cart request under way or answered last
  recentErrors,     \* error-monitoring.js: recentErrors
  logged,           \* number of logError calls so far
  listed            \* what the last getRecentErrors returned

storeVars == <<cookies, lastRefreshTime, replaced>>
clockVars == <<now>>
envVars == <<env, maxAgeEnv>>
callVars == <<pc, phase, initialized, errKind, refreshOk, invocations, failures, result>>
refresherVars == <<rpc, rinit>>
schedVars == <<running, jobs, spc, sretries, scall, cronTasks>>
fnVars == <<failure, fnPlatform, errorType, retryDelay, delaySource, thrown, thrownType>>
dbVars == <<rows, dbResult, lastStore>>
serverVars == <<currentPlatform, response, cart>>
logVars == <<recentErrors, logged, listed>>
auxVars == <<fnVars, dbVars, serverVars, logVars>>
vars == <<now, env, maxAgeEnv, cookies, lastRefreshTime, replaced, retryCounters,
          pc, phase, initialized, errKind, refreshOk, invocations, failures, result,
          rpc, rinit, running, jobs, spc, sretries, scall, cronTasks,
          failure, fnPlatform, errorType, retryDelay, delaySource, thrown, thrownType,
          rows, dbResult, lastStore, currentPlatform, response, cart, recentErrors, logged, listed>>

CallPlatform == "motonet"
CallOperation == "addToCart"

\* ------------------------------------------------ CookieManagementSystem

\* getCookieMaxAge: parseInt(process.env[...], 10) || defaultMaxAge
getCookieMaxAge(platformId) ==
  IF maxAgeEnv[platformId] = 0 THEN defaultMaxAge ELSE maxAgeEnv[platformId]

\* initializeCookies, the case that stores a record
StoreFromEnv(platformId) ==
  /\ cookies' = [cookies EXCEPT ![platformId] =
                   [cookieString |-> env[platformId],
                    timestamp |-> now,
                    expiresAt |-> now + getCookieMaxAge(platformId)]]
  /\ lastRefreshTime' = [lastRefreshTime EXCEPT ![platformId] = now]
  /\ replaced' = [c \in Callers |-> TRUE]

\* initializeCookies: TRUE iff the environment holds a cookie string
initializeCookiesOk(platformId) == env[platformId] # NoCookie

\* a variant that drops the stored record when the environment holds no cookie
initializeCookiesEvicting(platformId) ==
  IF initializeCookiesOk(platformId)
    THEN StoreFromEnv(platformId)
    ELSE /\ cookies' = [cookies EXCEPT ![platformId] = NoRecord]
         /\ lastRefreshTime' = [lastRefreshTime EXCEPT ![platformId] = Undefined]
         /\ UNCHANGED replaced

\* initializeCookies as a whole: its effect on the store
initializeCookies(platformId) ==
  IF initializeCookiesOk(platformId)
    THEN StoreFromEnv(platformId)
    ELSE UNCHANGED storeVars

\* line 74-75: expired or close to expiration
nearExpiration(platformId) == cookies[platformId].expiresAt < now + Lookahead
expired(platformId) == cookies[platformId].expiresAt < now

\* line 81-82: more than 30 minutes since the last refresh
staleByAge(platformId) ==
  /\ lastRefreshTime[platformId] # Undefined
  /\ lastRefreshTime[platformId] < now - StaleWindow

\* refreshCookies after `await this.initializeCookies`: lines 108-117
refreshCookiesFinish(platformId, ok) ==
  IF ok
    THEN /\ lastRefreshTime' = [lastRefreshTime EXCEPT ![platformId] = now]
         /\ UNCHANGED <<cookies, replaced>>
    ELSE UNCHANGED storeVars


\* ----------------------------------------- getLatestCookies, piece by piece

GetPcs == {"get", "get_init", "refresh1", "get_r1", "refresh2", "get_r2"}

\* a variant in which the retry callback runs the wrapped method, so that a
\* failure of the retry is handled again
MethodFailsWrapped(c, kind) ==
  /\ failures' = [failures EXCEPT ![c] = @ + 1]
  /\ pc' = [pc EXCEPT ![c] = "failed"]
  /\ errKind' = [errKind EXCEPT ![c] = kind]
  /\ result' = result

\* the wrapped method fails with `kind`: the first attempt hands the error to
\* handleError, a failing retry callback propagates (part_013 lines 19-34;
\* handleAuthenticationError's catch re-labels it, part_008 lines 268-276)
MethodFails(c, kind) ==
  /\ failures' = [failures EXCEPT ![c] = @ + 1]
  /\ IF phase[c] = "first"
       THEN /\ pc' = [pc EXCEPT ![c] = "failed"]
            /\ errKind' = [errKind EXCEPT ![c] = kind]
            /\ result' = result
       ELSE /\ pc' = [pc EXCEPT ![c] = "done"]
            /\ result' = [result EXCEPT ![c] =
                            IF phase[c] = "authRetry" THEN "authError" ELSE "rawError"]
            /\ errKind' = errKind

\* line 88: return this.cookies[platformId]; the method goes on to its HTTP request
GetReturns(c) ==
  /\ pc' = [pc EXCEPT ![c] = "http"]
  /\ initialized' = [initialized EXCEPT ![c] = FALSE]
  /\ UNCHANGED <<storeVars, errKind, failures, result>>

\* a refresh or initialisation started inside getLatestCookies, up to its await
GetAcquires(c, nextPc) ==
  /\ initializeCookies(CallPlatform)
  /\ initialized' = [initialized EXCEPT ![c] = initializeCookiesOk(CallPlatform)]
  /\ pc' = [pc EXCEPT ![c] = nextPc]
  /\ UNCHANGED <<errKind, failures, result>>

\* lines 80-88: the staleness check, reached with no await since the last read
StaleCheck(c) ==
  IF staleByAge(CallPlatform)
    THEN GetAcquires(c, "refresh2")
    ELSE GetReturns(c)

\* lines 73-78: the expiry check
ExpiryCheck(c) ==
  IF expired(CallPlatform) \/ nearExpiration(CallPlatform)
    THEN GetAcquires(c, "refresh1")
    ELSE StaleCheck(c)

\* getLatestCookies from its entry to its first await (lines 59-66 or 59-88)
GetEnter(c) ==
  /\ pc[c] = "get"
  /\ IF cookies[CallPlatform] = NoRecord
       THEN GetAcquires(c, "get_init")
       ELSE ExpiryCheck(c)
  /\ UNCHANGED <<clockVars, envVars, retryCounters, phase, refreshOk, invocations,
                 refresherVars, schedVars, auxVars>>

\* lines 67-70, then on to the expiry check
GetAfterInit(c) ==
  /\ pc[c] = "get_init"
  /\ IF ~initialized[c]
       THEN /\ MethodFails(c, "unknown")
            /\ UNCHANGED <<storeVars, initialized>>
       ELSE ExpiryCheck(c)
  /\ UNCHANGED <<clockVars, envVars, retryCounters, phase, refreshOk, invocations,
                 refresherVars, schedVars, auxVars>>

\* refreshCookies resumed after its await, called from line 77 / line 84
RefreshResume(c) ==
  /\ pc[c] \in {"refresh1", "refresh2"}
  /\ refreshCookiesFinish(CallPlatform, initialized[c])
  /\ pc' = [pc EXCEPT ![c] = IF pc[c] = "refresh1" THEN "get_r1" ELSE "get_r2"]
  /\ initialized' = [initialized EXCEPT ![c] = FALSE]
  /\ UNCHANGED <<clockVars, envVars, retryCounters, phase, errKind,
                 refreshOk, invocations, failures, result, refresherVars, schedVars, auxVars>>

\* getLatestCookies resumed after `await this.refreshCookies` of line 77
GetAfterRefresh1(c) ==
  /\ pc[c] = "get_r1"
  /\ StaleCheck(c)
  /\ UNCHANGED <<clockVars, envVars, retryCounters, phase, refreshOk, invocations,
                 refresherVars, schedVars, auxVars>>

\* ... and of line 84
GetAfterRefresh2(c) ==
  /\ pc[c] = "get_r2"
  /\ GetReturns(c)
  /\ UNCHANGED <<clockVars, envVars, retryCounters, phase, refreshOk, invocations,
                 refresherVars, schedVars, auxVars>>

\* ------------------------------------ withErrorRecovery and handleError

operationKey(platform, operation) == <<platform, operation>>
CallKey == operationKey(CallPlatform, CallOperation)

\* this.retryCounters[operationKey], 0 once handleError has initialised it
Counter(k) == IF k \in DOMAIN retryCounters THEN retryCounters[k] ELSE 0

SetCounter(k, v) == [x \in DOMAIN retryCounters \cup {k} |-> IF x = k THEN v ELSE retryCounters[x]]

\* part_013 line 18: the wrapped method is invoked for the first time
CallStart(c) ==
  /\ pc[c] \in {"idle", "done"}
  /\ pc' = [pc EXCEPT ![c] = "get"]
  /\ phase' = [phase EXCEPT ![c] = "first"]
  /\ invocations' = [invocations EXCEPT ![c] = 1]
  /\ failures' = [failures EXCEPT ![c] = 0]
  /\ result' = [result EXCEPT ![c] = "none"]
  /\ errKind' = [errKind EXCEPT ![c] = "none"]
  /\ refreshOk' = [refreshOk EXCEPT ![c] = "none"]
  /\ replaced' = [replaced EXCEPT ![c] = TRUE]
  /\ UNCHANGED <<clockVars, envVars, cookies, lastRefreshTime, initialized, retryCounters,
                 refresherVars, schedVars, auxVars>>

\* the method's HTTP request completes: with a response, or with a failure
\* that determineErrorType will classify as `out`
HttpDone(c) ==
  /\ pc[c] = "http"
  /\ \E out \in {"ok"} \cup ErrorKinds :
       IF out = "ok"
         THEN /\ pc' = [pc EXCEPT ![c] = "done"]
              /\ result' = [result EXCEPT ![c] = "ok"]
              /\ UNCHANGED <<errKind, failures, replaced>>
         ELSE /\ MethodFails(c, out)
              /\ replaced' = IF phase[c] = "first" /\ out = "authentication"
                               THEN [replaced EXCEPT ![c] = FALSE]
                               ELSE replaced
  /\ UNCHANGED <<clockVars, envVars, cookies, lastRefreshTime, retryCounters, phase,
                 initialized, refreshOk, invocations, refresherVars, schedVars, auxVars>>

\* a variant of the ceiling test that is off by one
maxRetriesExceededLate(count) == count > maxRetries

\* part_008 line 81
maxRetriesExceeded(count) == count >= maxRetries

\* part_008 lines 101-116: where the recovery strategy of a kind starts
RecoveryEntry(kind) == IF kind = "authentication" THEN "auth_refresh" ELSE "wait"

\* handleError, lines 65-116: all of it runs without an await
handleError(c) ==
  /\ pc[c] = "failed"
  /\ IF maxRetriesExceeded(Counter(CallKey))
       THEN /\ retryCounters' = SetCounter(CallKey, 0)
            /\ pc' = [pc EXCEPT ![c] = "done"]
            /\ result' = [result EXCEPT ![c] = "exhausted"]
       ELSE /\ retryCounters' = SetCounter(CallKey, Counter(CallKey) + 1)
            /\ pc' = [pc EXCEPT ![c] = RecoveryEntry(errKind[c])]
            /\ result' = result
  /\ UNCHANGED <<clockVars, envVars, storeVars, phase, initialized, errKind, refreshOk,
                 invocations, failures, refresherVars, schedVars, auxVars>>

\* a variant that retries whether or not the refresh threw
AfterAuthRefreshAlways(ok) == "wait"

\* handleAuthenticationError lines 256-277: what follows the refresh
AfterAuthRefresh(ok) == IF ok THEN "wait" ELSE "done"

\* handleAuthenticationError lines 258-259: require('./cookie-management-system')
\* and cookieManager.refreshPlatformCookies(platform) settle.  The call
\* resolves, or the require / the call throws; whichever module the require
\* resolves to, nothing on this path writes CookieManagementSystem.cookies.
AuthRefreshDone(c) ==
  /\ pc[c] = "auth_refresh"
  /\ \E ok \in BOOLEAN :
       /\ refreshOk' = [refreshOk EXCEPT ![c] = IF ok THEN "ok" ELSE "failed"]
       /\ pc' = [pc EXCEPT ![c] = AfterAuthRefresh(ok)]
       /\ result' = [result EXCEPT ![c] = IF AfterAuthRefresh(ok) = "done" THEN "authError" ELSE @]
  /\ UNCHANGED <<clockVars, envVars, storeVars, retryCounters, phase, initialized, errKind,
                 invocations, failures, refresherVars, schedVars, auxVars>>

\* the backoff / retry-after timer fires and the retry callback invokes the
\* method again (part_013 lines 26-33)
RetryCallback(c) ==
  /\ pc[c] = "wait"
  /\ pc' = [pc EXCEPT ![c] = "get"]
  /\ phase' = [phase EXCEPT ![c] = IF errKind[c] = "authentication" THEN "authRetry" ELSE "retry"]
  /\ errKind' = [errKind EXCEPT ![c] = "none"]
  /\ invocations' = [invocations EXCEPT ![c] = @ + 1]
  /\ UNCHANGED <<clockVars, envVars, storeVars, retryCounters, initialized, refreshOk,
                 failures, result, refresherVars, schedVars, auxVars>>

\* ------------------------------- forceRefreshCookies / the auto-refresh timer

\* refreshCookies up to its await (lines 100-106)
ForceRefreshBegin ==
  /\ rpc # "mid"
  /\ initializeCookies(CallPlatform)
  /\ rinit' = initializeCookiesOk(CallPlatform)
  /\ rpc' = "mid"
  /\ UNCHANGED <<clockVars, envVars, retryCounters, callVars, schedVars, auxVars>>

\* refreshCookies after its await (lines 108-117)
ForceRefreshEnd ==
  /\ rpc = "mid"
  /\ refreshCookiesFinish(CallPlatform, rinit)
  /\ rpc' = IF rinit THEN "returned_true" ELSE "returned_false"
  /\ rinit' = FALSE
  /\ UNCHANGED <<clockVars, envVars, retryCounters, callVars, schedVars, auxVars>>

\* ------------------------------------------------------------ environment

\* positions the event loop runs through without letting a timer or I/O in
Microtask(c) == pc[c] \in GetPcs \cup {"failed"}

Quiet == rpc # "mid" /\ \A c \in Callers : ~Microtask(c)

Tick ==
  /\ Quiet
  /\ now + ClockStep <= MaxTicks * ClockStep
  /\ now' = now + ClockStep
  /\ UNCHANGED <<envVars, storeVars, retryCounters, callVars, refresherVars, schedVars, auxVars>>

\* the deployment or a test setup assigns process.env.<PLATFORM>_COOKIE
SetEnv ==
  /\ Quiet
  /\ \E v \in EnvCookieValues \ {env[CallPlatform]} :
       env' = [env EXCEPT ![CallPlatform] = v]
  /\ UNCHANGED <<maxAgeEnv, clockVars, storeVars, retryCounters, callVars, refresherVars, schedVars, auxVars>>


mainVars == <<now, env, maxAgeEnv, cookies, lastRefreshTime, replaced, retryCounters,
              pc, phase, initialized, errKind, refreshOk, invocations, failures, result,
              rpc, rinit, auxVars>>

\* ------------------------------------------------------------- Scheduler
\* A call of Scheduler.refreshCookies(platform) occupies a slot <<platform, n>>.

SchedFree(p, n) == spc[<<p, n>>] \in {"idle", "succeeded", "failed", "returned_false"}
\* overlapping calls of refreshCookies are followed for one platform, up to
\* MaxSchedTasks of them; the other platforms run one call at a time
OverlapPlatform == "motonet"
UsableSlots(p) == IF p = OverlapPlatform THEN Slots ELSE {n \in Slots : \A m \in Slots : n <= m}
FreeSlots(p) == {n \in UsableSlots(p) : SchedFree(p, n)}
FirstFree(p) == CHOOSE n \in FreeSlots(p) : \A m \in FreeSlots(p) : n <= m

\* refreshCookies lines 418-435: up to `await cookieExtractor.extractCookies`
\* with retries = config.scheduler.maxRetries; with no retries the loop is
\* skipped and line 468 returns false
LaunchedPc == IF schedulerMaxRetries > 0 THEN "extracting" ELSE "returned_false"

\* an error caught by line 450 is told apart by the attempt that raised it:
\* AttemptError(t) is the one of the attempt under way; lastError starts as
\* null (line 430)
NoLastError == 0
AttemptError(t) == scall[t].attempts

\* the bookkeeping of one refreshCookies call: extractCookies calls made,
\* storeCookies calls resolved, delays awaited, `lastError` (line 430) and
\* what the call threw
NoCall == [attempts |-> 0, stores |-> 0, delays |-> 0, lastError |-> NoLastError, thrown |-> NoLastError]
LaunchedCall == [NoCall EXCEPT !.attempts = IF schedulerMaxRetries > 0 THEN 1 ELSE 0]

\* the guard of start (lines 352-355), taken as if the scheduler never ran
alreadyRunningIgnored == FALSE

\* the guard of start (lines 352-355)
alreadyRunning == running

\* start (lines 351-369): schedulePlatform for every platform (the cron job
\* and the immediate refresh of lines 386-394), then scheduleCleanup
SchedStart ==
  /\ \A p \in SchedPlatforms : FreeSlots(p) # {}
  /\ IF alreadyRunning
       THEN UNCHANGED schedVars
       ELSE /\ running' = TRUE
            /\ jobs' = jobs \cup SchedPlatforms \cup {"cleanup"}
            /\ cronTasks' = [j \in JobNames |-> cronTasks[j] + 1]
            /\ spc' = [t \in SchedPlatforms \X Slots |->
                         IF t[2] = FirstFree(t[1]) THEN LaunchedPc ELSE spc[t]]
            /\ sretries' = [t \in SchedPlatforms \X Slots |->
                              IF t[2] = FirstFree(t[1]) THEN schedulerMaxRetries ELSE sretries[t]]
            /\ scall' = [t \in SchedPlatforms \X Slots |->
                           IF t[2] = FirstFree(t[1]) THEN LaunchedCall ELSE scall[t]]
  /\ UNCHANGED mainVars

\* stop (lines 474-491): every task in the job table is stopped
SchedStop ==
  /\ IF ~running
       THEN UNCHANGED schedVars
       ELSE /\ running' = FALSE
            /\ jobs' = {}
            /\ cronTasks' = [j \in JobNames |-> IF j \in jobs THEN cronTasks[j] - 1 ELSE cronTasks[j]]
            /\ UNCHANGED <<spc, sretries, scall>>
  /\ UNCHANGED mainVars

\* the cron callback of lines 386-389 fires for a scheduled task
CronTick(p) ==
  /\ cronTasks[p] > 0
  /\ FreeSlots(p) # {}
  /\ spc' = [spc EXCEPT ![<<p, FirstFree(p)>>] = LaunchedPc]
  /\ sretries' = [sretries EXCEPT ![<<p, FirstFree(p)>>] = schedulerMaxRetries]
  /\ scall' = [scall EXCEPT ![<<p, FirstFree(p)>>] = LaunchedCall]
  /\ UNCHANGED <<running, jobs, cronTasks, mainVars>>

\* a variant in which the rejection reaches the process's unhandledRejection
\* handler (index.js lines 95-99), which stops the scheduler and exits
RefreshRejectedCrashes(t) ==
  /\ running' = FALSE
  /\ jobs' = {}
  /\ UNCHANGED cronTasks

\* what becomes of the rejection of refreshCookies (line 465) in its callers:
\* the immediate refresh logs it in its .catch (lines 392-394); the cron
\* callback (lines 386-389) rejects in turn, and node-cron's Task.execute
\* catches the rejected promise of its callback and emits 'task-failed'
RefreshRejected(t) == UNCHANGED <<running, jobs, cronTasks>>

\* a variant of line 455 that waits after every failed attempt
delayBeforeRetryAlways(retries) == TRUE

\* line 455: the delay of line 457 is awaited only when retries are left
delayBeforeRetry(retries) == retries > 0

\* lines 450-465: the catch block of the retry loop;
\* the loop condition of line 432 ends the loop when no retries are left and
\* line 465 throws lastError
SchedAttemptFailed(t) ==
  /\ sretries' = [sretries EXCEPT ![t] = @ - 1]
  /\ IF delayBeforeRetry(sretries[t] - 1)
       THEN /\ spc' = [spc EXCEPT ![t] = "delay"]
            /\ scall' = [scall EXCEPT ![t].lastError = AttemptError(t), ![t].delays = @ + 1]
            /\ UNCHANGED <<running, jobs, cronTasks>>
       ELSE /\ spc' = [spc EXCEPT ![t] = "failed"]
            /\ scall' = [scall EXCEPT ![t].lastError = AttemptError(t), ![t].thrown = AttemptError(t)]
            /\ RefreshRejected(t)

\* extractCookies settles: a cookie string, or a throw / an empty string
\* (lines 435-440)
ExtractDone(t) ==
  /\ spc[t] = "extracting"
  /\ \E ok \in BOOLEAN :
       IF ok
         THEN /\ spc' = [spc EXCEPT ![t] = "storing"]
              /\ UNCHANGED <<sretries, scall, running, jobs, cronTasks>>
         ELSE SchedAttemptFailed(t)
  /\ UNCHANGED mainVars

\* database.storeCookies settles (lines 442-449)
StoreDone(t) ==
  /\ spc[t] = "storing"
  /\ \E ok \in BOOLEAN :
       IF ok
         THEN /\ spc' = [spc EXCEPT ![t] = "succeeded"]
              /\ scall' = [scall EXCEPT ![t].stores = @ + 1]
              /\ UNCHANGED <<sretries, running, jobs, cronTasks>>
         ELSE SchedAttemptFailed(t)
  /\ UNCHANGED mainVars

\* the retry delay of line 457 elapses and the loop condition of line 432
\* is tested: another attempt, or the throw of line 465
DelayDone(t) ==
  /\ spc[t] = "delay"
  /\ IF sretries[t] > 0
       THEN /\ spc' = [spc EXCEPT ![t] = "extracting"]
            /\ scall' = [scall EXCEPT ![t].attempts = @ + 1]
            /\ UNCHANGED <<running, jobs, cronTasks>>
       ELSE /\ spc' = [spc EXCEPT ![t] = "failed"]
            /\ scall' = [scall EXCEPT ![t].thrown = scall[t].lastError]
            /\ RefreshRejected(t)
  /\ UNCHANGED <<sretries, mainVars>>

\* everything but the scheduler and the parts below
baseVars == <<now, env, maxAgeEnv, cookies, lastRefreshTime, replaced, retryCounters,
              pc, phase, initialized, errKind, refreshOk, invocations, failures, result,
              rpc, rinit>>

\* ----------------------------------------------- failures and their kind

\* a property that is absent from an object, or a header that was not sent
NoText == "<undefined>"

\* JavaScript truthiness of a header value or message
Truthy(v) == v # NoText /\ v # ""

\* the platforms handleError is called for: the three the classifier knows
\* and `smarket`, the name config.js gives the third one
FnPlatforms == {"motonet", "sryhma", "gigantti", "smarket"}

\* response headers as axios delivers them (lower-case names)
NoHeaders == [h \in {} |-> ""]
HeaderSets ==
  { NoHeaders,
    "retry-after" :> "5",
    "retry-after" :> "0",
    "retry-after" :> "120",
    "retry-after" :> "Wed, 21 Oct 2026 07:28:00 GMT",
    ("retry-after" :> "5") @@ ("x-motonet-retry-after" :> "2"),
    "x-motonet-retry-after" :> "7",
    "x-gigantti-retry-after" :> "5",
    "x-rate-limit-remaining" :> "0",
    "x-motonet-rate-limit" :> "1",
    "x-sryhma-rate-limit" :> "" }

\* headers[name]
Header(headers, name) == IF name \in DOMAIN headers THEN headers[name] ELSE NoText

Statuses == {400, 401, 403, 404, 429, 500, 503, 599, 600}

\* error.response: absent, or a status with headers (headers may be absent
\* from a hand-made response object)
NoResponse == [present |-> FALSE, status |-> 0, hasHeaders |-> FALSE, headers |-> NoHeaders]
Responses ==
  {NoResponse}
    \cup [present : {TRUE}, status : Statuses, hasHeaders : {TRUE}, headers : HeaderSets]
    \cup [present : {TRUE}, status : {429, 500}, hasHeaders : {FALSE}, headers : {NoHeaders}]

\* error.message, and the patterns of determineErrorType that
\* error.message.toLowerCase() includes
Messages ==
  { NoText,
    "Request failed with status code",
    "Network Error",
    "Unauthorized",
    "Too Many Requests",
    "Service Unavailable",
    "socket hang up",
    "Session expired",
    "Istunto vanhentunut",
    "Permission denied after timeout",
    "read ECONNRESET",
    "No valid cookies found" }

PatternsIn(message) ==
    CASE message = "Network Error" -> {"network"}
      [] message = "Unauthorized" -> {"unauthorized"}
      [] message = "Too Many Requests" -> {"too many requests"}
      [] message = "Service Unavailable" -> {"service unavailable"}
      [] message = "socket hang up" -> {"socket"}
      [] message = "Session expired" -> {"session expired", "session", "sessio"}
      [] message = "Istunto vanhentunut" -> {"istunto"}
      [] message = "Permission denied after timeout" -> {"permission", "timeout"}
      [] OTHER -> {}

\* error.message as it reads: axios appends the status to its message
messageText(error) ==
  IF error.isAxiosError /\ error.response.present
       /\ error.message = "Request failed with status code"
    THEN error.message \o " " \o ToString(error.response.status)
    ELSE error.message


\* error.message of the errors axios makes
AxiosMessages == {"Request failed with status code", "Network Error", NoText}

\* the values a wrapped method can reject with: an error made by axios, or
\* another value without a response

Failures ==
  [isAxiosError : {TRUE}, response : Responses, message : AxiosMessages]
    \cup [isAxiosError : {FALSE}, response : {NoResponse}, message : Messages]

\* the adapters whose methods are wrapped, and two of their operations
AdapterPlatforms == {"motonet", "gigantti"}
AdapterOperations == {"searchProducts", "addToCart"}

\* the failures axios raises inside an adapter method: a response with its
\* status and headers, or no response
AxiosFailures ==
  {f \in Failures : f.isAxiosError /\ (f.response.present => f.response.hasHeaders)}

\* BaseECommerceAdapter.handleError (base-adapter.js lines 84-96): the adapter's
\* catch throws new Error(`${platformId} ${operation} failed: ${error.message}`)
\* with originalError, platformId and operation set; the new error has no
\* response and no isAxiosError
enhancedMessage(error, platformId, operation) ==
  platformId \o " " \o operation \o " failed: "
    \o (IF error.message = NoText THEN "undefined" ELSE messageText(error))

enhancedError(error, platformId, operation) ==
  [isAxiosError |-> FALSE,
   response |-> NoResponse,
   message |-> enhancedMessage(error, platformId, operation),
   originalError |-> error,
   platformId |-> platformId,
   operation |-> operation]

\* the messages of the enhanced errors, each with the message it embeds
EnhancedMessages ==
  {[text |-> enhancedMessage(f, p, o), inner |-> f.message] :
     f \in AxiosFailures, p \in AdapterPlatforms, o \in AdapterOperations}

\* message.toLowerCase().includes(pattern); the words an adapter puts before
\* the message it embeds hold none of the patterns
Includes(message, pattern) ==
  IF \E e \in EnhancedMessages : e.text = message
    THEN pattern \in PatternsIn((CHOOSE e \in EnhancedMessages : e.text = message).inner)
    ELSE pattern \in PatternsIn(message)

IncludesAny(message, patterns) == \E w \in patterns : Includes(message, w)

\* what an operation returns when it raises instead
TypeError == "TypeError"

\* hasRateLimitingHeaders (part_008 lines 213-243)
hasRateLimitingHeaders(headers, platform) ==
  \/ \E h \in {"x-rate-limit-limit", "x-rate-limit-remaining", "x-rate-limit-reset",
               "retry-after"} : Truthy(Header(headers, h))
  \/ /\ platform \in {"motonet", "sryhma", "gigantti"}
     /\ Truthy(Header(headers, "x-" \o platform \o "-rate-limit"))

\* determineErrorType lines 152-204: the message patterns and the platform's
\* own words; error.message.toLowerCase() raises when there is no message
messageErrorType(error, platform) ==
  LET m == error.message IN
  IF m = NoText THEN TypeError
  ELSE IF IncludesAny(m, {"unauthorized", "forbidden", "permission", "login",
                          "authentication"}) THEN "authentication"
  ELSE IF IncludesAny(m, {"rate limit", "too many requests", "throttle"}) THEN "rateLimiting"
  ELSE IF IncludesAny(m, {"server error", "internal error", "service unavailable"}) THEN "server"
  ELSE IF IncludesAny(m, {"network", "connection", "timeout", "socket"}) THEN "network"
  ELSE IF platform = "motonet" /\ IncludesAny(m, {"session expired", "istunto"})
    THEN "authentication"
  ELSE IF platform = "sryhma" /\ IncludesAny(m, {"kirjaudu", "sessio"}) THEN "authentication"
  ELSE IF platform = "gigantti" /\ IncludesAny(m, {"session", "login required"})
    THEN "authentication"
  ELSE "unknown"

\* determineErrorType (part_008 lines 125-205); headers[...] raises when the
\* response has no headers object
determineErrorType(error, platform) ==
  LET r == error.response IN
  IF error.isAxiosError /\ ~r.present THEN "network"
  ELSE IF error.isAxiosError /\ r.status \in {401, 403} THEN "authentication"
  ELSE IF error.isAxiosError /\ r.status = 429 THEN "rateLimiting"
  ELSE IF error.isAxiosError /\ ~r.hasHeaders THEN TypeError
  ELSE IF error.isAxiosError /\ hasRateLimitingHeaders(r.headers, platform) THEN "rateLimiting"
  ELSE IF error.isAxiosError /\ r.status >= 500 /\ r.status < 600 THEN "server"
  ELSE messageErrorType(error, platform)


\* -------------------------------------------------- delays before a retry

\* Math.random() in thousandths, from 0 to just below 1
RandomValues == {0, 250, 500, 750, 999}

\* this.retryCounters[operationKey] || 1 (line 415)
retryCount(platform, operation) ==
  IF Counter(operationKey(platform, operation)) = 0
    THEN 1
    ELSE Counter(operationKey(platform, operation))

Min(a, b) == IF a <= b THEN a ELSE b

\* a variant that forgets the cap
calculateExponentialBackoffUncapped(platform, operation, random) ==
  LET exponentialPart == 2 ^ (retryCount(platform, operation) - 1) * baseRetryDelay
  IN  exponentialPart + (random * 3 * exponentialPart) \div 10000

\* calculateExponentialBackoff (lines 413-426) with Math.random() = random / 1000;
\* exponentialPart and maxRetryDelay are integers, so the floor of the capped
\* sum is the capped sum of the floors
calculateExponentialBackoff(platform, operation, random) ==
  LET exponentialPart == 2 ^ (retryCount(platform, operation) - 1) * baseRetryDelay
      jitter == (random * 3 * exponentialPart) \div 10000
  IN  Min(exponentialPart + jitter, maxRetryDelay)

\* the values of `retryDelay` in handleRateLimitingError
Null == [kind |-> "null", ms |-> 0]
NaN == [kind |-> "NaN", ms |-> 0]
Num(n) == [kind |-> "number", ms |-> n]

\* !retryDelay
Falsy(d) == d.kind # "number" \/ d.ms = 0

\* parseInt(text, 10) * 1000 for the header values above
parseIntTimes1000(text) ==
  CASE text = "0" -> Num(0)
    [] text = "1" -> Num(1000)
    [] text = "2" -> Num(2000)
    [] text = "5" -> Num(5000)
    [] text = "7" -> Num(7000)
    [] text = "120" -> Num(120000)
    [] OTHER -> NaN

\* lines 292-325: the delay the response headers ask for
headerRetryDelay(error, platform) ==
  LET r == error.response
      own == "x-" \o platform \o "-retry-after"
  IN  IF ~(error.isAxiosError /\ r.present /\ r.hasHeaders) THEN Null
      ELSE IF platform \in {"motonet", "sryhma", "gigantti"} /\ Truthy(Header(r.headers, own))
        THEN parseIntTimes1000(Header(r.headers, own))
      ELSE IF Truthy(Header(r.headers, "retry-after"))
        THEN parseIntTimes1000(Header(r.headers, "retry-after"))
      ELSE Null

\* lines 327-330: the delay handleRateLimitingError waits, and where it is from
rateLimitRetryDelay(error, platform, operation, random) ==
  IF Falsy(headerRetryDelay(error, platform))
    THEN [ms |-> calculateExponentialBackoff(platform, operation, random), source |-> "backoff"]
    ELSE [ms |-> headerRetryDelay(error, platform).ms, source |-> "header"]

\* the delay of the recovery handler of `kind` (lines 253-390)
recoveryDelay(kind, error, platform, operation, random) ==
  IF kind = "rateLimiting"
    THEN rateLimitRetryDelay(error, platform, operation, random)
    ELSE [ms |-> calculateExponentialBackoff(platform, operation, random), source |-> "backoff"]

\* line 94: new Error(`Max retries exceeded for ${platform}:${operation}: ${error.message}`)
NoError == [name |-> "none", message |-> ""]
MaxRetriesExceededError(error, platform, operation) ==
  [name |-> "Error",
   message |-> "Max retries exceeded for " \o platform \o ":" \o operation \o ": "
                 \o messageText(error)]

\* the TypeError that determineErrorType raises out of handleError
RaisedTypeError == [name |-> "TypeError", message |-> "Cannot read properties of undefined"]

\* -------------------------------------------- handleError on failure values

FnKey == operationKey(fnPlatform, CallOperation)

\* nothing handled yet
FnOutInit ==
  /\ errorType = "none"
  /\ retryDelay = 0
  /\ delaySource = "none"
  /\ thrown = NoError
  /\ thrownType = "none"

\* handleError (lines 65-117) for the failure at hand, up to the await of
\* its recovery handler, whose delay is computed from the counter as
\* line 98 leaves it
FnHandleError ==
  /\ errorType = "none"
  /\ UNCHANGED <<failure, fnPlatform>>
  /\ errorType' = determineErrorType(failure, fnPlatform)
  /\ IF errorType' = TypeError
       THEN /\ retryCounters' = SetCounter(FnKey, Counter(FnKey))
            /\ thrown' = RaisedTypeError
            /\ thrownType' = "none"
            /\ UNCHANGED <<retryDelay, delaySource>>
     ELSE IF maxRetriesExceeded(Counter(FnKey))
       THEN /\ retryCounters' = SetCounter(FnKey, 0)
            /\ thrown' = MaxRetriesExceededError(failure, fnPlatform, CallOperation)
            /\ thrownType' = errorType'
            /\ UNCHANGED <<retryDelay, delaySource>>
     ELSE /\ retryCounters' = SetCounter(FnKey, Counter(FnKey) + 1)
          /\ \E random \in RandomValues :
               /\ retryDelay' =
                    recoveryDelay(errorType, failure, fnPlatform, CallOperation, random)'.ms
               /\ delaySource' =
                    recoveryDelay(errorType, failure, fnPlatform, CallOperation, random)'.source
          /\ UNCHANGED <<thrown, thrownType>>
  /\ UNCHANGED <<clockVars, envVars, storeVars, callVars, refresherVars,
                 schedVars, dbVars, serverVars, logVars>>

\* the retry callback rejects with the same failure, and the next call of
\* the wrapped method hands it to handleError again
FnSameFailure ==
  /\ errorType # "none"
  /\ errorType' = "none"
  /\ retryDelay' = 0
  /\ delaySource' = "none"
  /\ thrown' = NoError
  /\ thrownType' = "none"
  /\ UNCHANGED <<failure, fnPlatform, retryCounters, clockVars, envVars, storeVars, callVars,
                 refresherVars, schedVars, dbVars, serverVars, logVars>>

\* ------------------------------------ a wrapped adapter method that fails

\* an adapter method catches the failure of its HTTP request and leaves
\* through this.handleError (e.g. motonet-adapter.js lines 185-186); what it
\* throws is the failure the wrapper hands to handleError
AdapterFailures ==
  {enhancedError(error, platformId, operation) :
     error \in AxiosFailures, platformId \in AdapterPlatforms, operation \in AdapterOperations}

\* handleError for the failure of an adapter method
AdapterHandleError ==
  /\ "originalError" \in DOMAIN failure
  /\ FnHandleError

\* ------------------------------ calculateExponentialBackoff on its own

\* calculateExponentialBackoff(platform, operation) is called with the
\* counter where it stands
Backoff ==
  /\ \E random \in RandomValues :
       retryDelay' = calculateExponentialBackoff(fnPlatform, CallOperation, random)
  /\ delaySource' = "backoff"
  /\ UNCHANGED <<failure, fnPlatform, errorType, thrown, thrownType, retryCounters, clockVars,
                 envVars, storeVars, callVars, refresherVars, schedVars, dbVars, serverVars,
                 logVars>>

\* line 98 on an instance whose MAX_RETRIES lets the counter grow this far
CounterUp ==
  /\ Counter(FnKey) < MaxRetryCount
  /\ retryCounters' = SetCounter(FnKey, Counter(FnKey) + 1)
  /\ retryDelay' = 0
  /\ delaySource' = "none"
  /\ UNCHANGED <<failure, fnPlatform, errorType, thrown, thrownType, clockVars,
                 envVars, storeVars, callVars, refresherVars, schedVars, dbVars, serverVars,
                 logVars>>

\* --------------------------------------------------------------- Database

DbPlatforms == {"motonet", "gigantti"}
CookieStrings == {"A", "B"}
\* expiresIn: ten or twenty minutes
ExpiresInValues == {ClockStep, ShortMaxAge}

\* config.encryption.secret
EncryptionSecret == "default-encryption-key-change-in-production"

\* CryptoJS.AES.encrypt(data, secret).toString(): readable only with the secret
encrypt(data) == <<"AES", EncryptionSecret, data>>

\* CryptoJS.AES.decrypt(encryptedData, secret).toString(Utf8)
decrypt(encryptedData) ==
  IF encryptedData[1] = "AES" /\ encryptedData[2] = EncryptionSecret
    THEN encryptedData[3]
    ELSE ""

\* resolve(null)
DbNull == [null |-> TRUE]
NoStore == [stored |-> FALSE]
\* no getLatestCookies has resolved since the last store or clock step
NoDbResult == [platform |-> NoText, at |-> 0, value |-> DbNull]

\* this.lastID of the next INSERT: AUTOINCREMENT ids only grow, also after
\* rows were deleted
StoredIds == {lastStore[p].id : p \in {q \in DbPlatforms : lastStore[q].stored}}
NextRowId == IF StoredIds = {} THEN 1 ELSE (CHOOSE i \in StoredIds : \A j \in StoredIds : j <= i) + 1

\* storeCookies (database.js lines 70-91)
storeCookies(platform, cookieString, expiresIn) ==
  /\ rows' = Append(rows, [id |-> NextRowId,
                           platform |-> platform,
                           cookie_string |-> encrypt(cookieString),
                           created_at |-> now,
                           expires_at |-> now + expiresIn])
  /\ lastStore' = [lastStore EXCEPT ![platform] =
                     [stored |-> TRUE, id |-> NextRowId, cookieString |-> cookieString,
                      t |-> now, maxAge |-> expiresIn]]

DbStore ==
  /\ NextRowId <= MaxRows
  /\ \E p \in DbPlatforms, s \in CookieStrings, maxAge \in ExpiresInValues :
       storeCookies(p, s, maxAge)
  /\ dbResult' = NoDbResult
  /\ UNCHANGED <<baseVars, schedVars, fnVars, serverVars, logVars>>

\* WHERE platform = ? AND expires_at > ?
ValidRows(platform) ==
  {i \in 1..Len(rows) : rows[i].platform = platform /\ rows[i].expires_at > now}

\* ORDER BY created_at DESC LIMIT 1: a row no other valid row is newer than;
\* SQL leaves the choice among rows of equal created_at open
LatestRows(platform) ==
  {i \in ValidRows(platform) :
     \A j \in ValidRows(platform) : rows[j].created_at <= rows[i].created_at}

\* getLatestCookies (lines 98-134): what it resolves to when the SELECT
\* yields row i (i = 0: no row)
getLatestCookiesResult(platform, i) ==
  IF i = 0
    THEN DbNull
    ELSE [id |-> rows[i].id,
          cookieString |-> decrypt(rows[i].cookie_string),
          createdAt |-> rows[i].created_at,
          expiresAt |-> rows[i].expires_at]

\* the values getLatestCookies(platform) can resolve to in the current state
getLatestCookiesResults(platform) ==
  {getLatestCookiesResult(platform, i) :
     i \in (IF LatestRows(platform) = {} THEN {0} ELSE LatestRows(platform))}

DbGet ==
  /\ \E p \in DbPlatforms :
       \E i \in (IF LatestRows(p) = {} THEN {0} ELSE LatestRows(p)) :
         dbResult' = [platform |-> p, at |-> now, value |-> getLatestCookiesResult(p, i)]
  /\ UNCHANGED <<rows, lastStore, baseVars, schedVars, fnVars, serverVars, logVars>>

\* a variant that deletes by age of the row: WHERE created_at < ?
cleanupCreatedBefore == SelectSeq(rows, LAMBDA r : ~(r.created_at < now))

\* cleanupExpiredCookies (lines 140-158): DELETE ... WHERE expires_at < ?
cleanupExpiredCookies == SelectSeq(rows, LAMBDA r : ~(r.expires_at < now))

DbCleanup ==
  /\ rows' = cleanupExpiredCookies
  /\ UNCHANGED <<dbResult, lastStore, baseVars, schedVars, fnVars, serverVars, logVars>>

\* the clock between two database calls; the result of a getLatestCookies is
\* followed until the clock moves on
DbTick ==
  /\ now + ClockStep <= MaxTicks * ClockStep
  /\ now' = now + ClockStep
  /\ dbResult' = NoDbResult
  /\ UNCHANGED <<rows, lastStore, envVars, storeVars, retryCounters, callVars, refresherVars,
                 schedVars, fnVars, serverVars, logVars>>


\* ------------------------------------------- error-monitoring.js: logError

\* the default `context = {}`
NoContext == [k \in {} |-> ""]

\* { timestamp, message, stack, platform, operation, ...context }: a key of
\* the context replaces the field of the same name
errorInfoOf(error, platform, operation, context) ==
  context @@ [timestamp |-> now,
              message |-> error.message,
              stack |-> error.stack,
              platform |-> platform,
              operation |-> operation]

\* new Error(message)
NewError(message) == [message |-> message, stack |-> "Error: " \o message]

Take(seq, n) == IF Len(seq) <= n THEN seq ELSE SubSeq(seq, 1, n)

\* a variant that stores the entry at the end
logErrorAppending(error, platform, operation, context) ==
  Take(Append(recentErrors, errorInfoOf(error, platform, operation, context)),
       MAX_RECENT_ERRORS)

\* logError lines 110-124: recentErrors.unshift(errorInfo), and pop() once the
\* list is longer than MAX_RECENT_ERRORS
logError(error, platform, operation, context) ==
  LET unshifted == <<errorInfoOf(error, platform, operation, context)>> \o recentErrors
  IN  IF Len(unshifted) > MAX_RECENT_ERRORS
        THEN SubSeq(unshifted, 1, Len(unshifted) - 1)
        ELSE unshifted

\* the i-th error a test logs
TestError(i) == NewError("Test error " \o ToString(i))

\* errorMonitoring.logError(new Error(...), 'test-platform', 'test-operation')
LogError ==
  /\ logged < MaxLogged
  /\ recentErrors' = logError(TestError(logged + 1), "test-platform", "test-operation", NoContext)
  /\ logged' = logged + 1
  /\ listed' = << >>
  /\ UNCHANGED <<baseVars, schedVars, fnVars, dbVars, serverVars>>

\* the `limit` argument: left out, or a count
Limits == {0, 1, 5, MAX_RECENT_ERRORS, MAX_RECENT_ERRORS + 50}
LimitArguments == {[given |-> FALSE, limit |-> 0]} \cup [given : {TRUE}, limit : Limits]

\* Array.prototype.slice(0, end) for end >= 0
slice0(seq, end) == SubSeq(seq, 1, IF end < Len(seq) THEN end ELSE Len(seq))

\* getRecentErrors (lines 175-177), limit = MAX_RECENT_ERRORS by default
getRecentErrors(argument) ==
  slice0(recentErrors, IF argument.given THEN argument.limit ELSE MAX_RECENT_ERRORS)

GetRecentErrors ==
  /\ \E argument \in LimitArguments :
       listed' = <<[argument |-> argument, errors |-> getRecentErrors(argument)]>>
  /\ UNCHANGED <<recentErrors, logged, baseVars, schedVars, fnVars, dbVars, serverVars>>

\* ------------------------------------------ server.js: /api/switch-platform

\* PLATFORMS (lines 51-56)
PLATFORMS == {"motonet", "rusta", "sryhma", "gigantti"}

\* req.body.platform: absent, empty, a supported name, or another name
BodyPlatforms == {NoText, "", "invalid-platform", "smarket"} \cup PLATFORMS

NoResponseSent == [status |-> 0, body |-> NoContext]

\* a variant of the validation that only rejects a missing platform
invalidPlatformMissingOnly(platform) == ~Truthy(platform)

\* line 205: !platform || !Object.values(PLATFORMS).includes(platform)
invalidPlatform(platform) == ~Truthy(platform) \/ platform \notin PLATFORMS

\* the 'finish' listener of createRequestLoggerMiddleware: a response with a
\* status of 400 or more is logged as an error
finishLogged(platform, statusCode) ==
  IF statusCode >= 400
    THEN logError(NewError("HTTP " \o ToString(statusCode)),
                  IF Truthy(platform) THEN platform ELSE "unknown",
                  "/api/switch-platform",
                  [method |-> "POST", url |-> "/api/switch-platform",
                   statusCode |-> statusCode, duration |-> 0])
    ELSE recentErrors

\* POST /api/switch-platform (lines 202-216) and the request logger around it
SwitchPlatform ==
  /\ logged < MaxRequests
  /\ \E platform \in BodyPlatforms :
       /\ IF invalidPlatform(platform)
            THEN /\ response' = [status |-> 400,
                                 body |-> [error |-> "Invalid platform",
                                           supportedPlatforms |-> PLATFORMS],
                                 request |-> platform]
                 /\ UNCHANGED currentPlatform
            ELSE /\ currentPlatform' = platform
                 /\ response' = [status |-> 200,
                                 body |-> [success |-> TRUE, currentPlatform |-> platform],
                                 request |-> platform]
       /\ recentErrors' = finishLogged(platform, response'.status)
       /\ logged' = IF response'.status >= 400 THEN logged + 1 ELSE logged
  /\ UNCHANGED <<cart, listed, baseVars, schedVars, fnVars, dbVars>>

\* ---------------------------------------------- server.js: /api/add-to-cart

\* line 245: let retries = 3
cartRetries == 3

\* getPlatformConfig (lines 115-197): the base URL, endpoint, cookie and
\* headers of currentPlatform, named here by their platform; the cookie is
\* the processed <PLATFORM>_COOKIE of the environment, possibly empty
getPlatformConfig(cookieSet) == [platform |-> currentPlatform, cookie |-> cookieSet]

\* the payload a platform's cart endpoint takes (the two shapes of lines 254-270)
PayloadFormat(platform) == IF platform = "motonet" THEN "tracking" ELSE "productId-quantity"

\* lines 252-270: the payload of an attempt is chosen by currentPlatform
requestData == PayloadFormat(currentPlatform)

NoAnswer == [status |-> 0, platform |-> NoText]
NoCart == [pc |-> "idle", accepted |-> NoText, config |-> NoText, retries |-> 0,
           payload |-> NoText, attempts |-> 0, answer |-> NoAnswer]

\* logError (lines 110-124) on a list that an earlier logError of the same
\* handler has already changed
logErrorOnto(errors, errorInfo) ==
  LET unshifted == <<errorInfo>> \o errors
  IN  IF Len(unshifted) > MAX_RECENT_ERRORS
        THEN SubSeq(unshifted, 1, Len(unshifted) - 1)
        ELSE unshifted

\* the 'finish' listener of createRequestLoggerMiddleware for a request whose
\* body names no platform
cartFinishLogged(errors, statusCode) ==
  IF statusCode >= 400
    THEN logErrorOnto(errors,
                      errorInfoOf(NewError("HTTP " \o ToString(statusCode)), "unknown",
                                  "/api/add-to-cart",
                                  [method |-> "POST", url |-> "/api/add-to-cart",
                                   statusCode |-> statusCode, duration |-> 0]))
    ELSE errors

\* lines 221-246 and the first pass through lines 248-278: the request is
\* accepted with the platform that is current, and the first attempt is sent
AddToCart ==
  /\ cart.pc \in {"idle", "answered"}
  /\ logged < MaxRequests
  /\ \E valid \in BOOLEAN, cookieSet \in BOOLEAN :
       LET config == getPlatformConfig(cookieSet)
       IN  IF ~valid
             THEN /\ cart' = [NoCart EXCEPT !.pc = "answered", !.accepted = currentPlatform,
                                            !.answer = [status |-> 400, platform |-> NoText]]
                  /\ recentErrors' = cartFinishLogged(recentErrors, 400)
                  /\ logged' = logged + 1
             ELSE IF ~config.cookie
               THEN /\ cart' = [NoCart EXCEPT !.pc = "answered", !.accepted = currentPlatform,
                                              !.config = config.platform,
                                              !.answer = [status |-> 500, platform |-> NoText]]
                    /\ recentErrors' = cartFinishLogged(recentErrors, 500)
                    /\ logged' = logged + 1
               ELSE /\ cart' = [NoCart EXCEPT !.pc = "sending", !.accepted = currentPlatform,
                                              !.config = config.platform,
                                              !.retries = cartRetries,
                                              !.payload = requestData,
                                              !.attempts = 1]
                    /\ UNCHANGED <<recentErrors, logged>>
  /\ UNCHANGED <<currentPlatform, response, listed, baseVars, schedVars, fnVars, dbVars>>

\* the axios call of lines 272-278 settles: the answer of lines 280-293, or
\* the catch of lines 294-309 and, with no retries left, lines 312-326
CartHttpDone ==
  /\ cart.pc = "sending"
  /\ \E ok \in BOOLEAN :
       IF ok
         THEN /\ cart' = [cart EXCEPT !.pc = "answered",
                                      !.answer = [status |-> 200, platform |-> currentPlatform]]
              /\ UNCHANGED <<recentErrors, logged>>
         ELSE IF cart.retries - 1 > 0
           THEN /\ cart' = [cart EXCEPT !.pc = "backoff", !.retries = @ - 1]
                /\ UNCHANGED <<recentErrors, logged>>
           ELSE /\ cart' = [cart EXCEPT !.pc = "answered", !.retries = @ - 1,
                                        !.answer = [status |-> 500, platform |-> currentPlatform]]
                /\ recentErrors' =
                     cartFinishLogged(
                       logError(NewError("Request failed"), currentPlatform, "add-to-cart",
                                [attempts |-> 3]),
                       500)
                /\ logged' = logged + 2
  /\ UNCHANGED <<currentPlatform, response, listed, baseVars, schedVars, fnVars, dbVars>>

\* the backoff of lines 303-308 elapses and the loop sends the next attempt
\* (lines 248-278)
CartBackoffDone ==
  /\ cart.pc = "backoff"
  /\ cart' = [cart EXCEPT !.pc = "sending", !.payload = requestData, !.attempts = @ + 1]
  /\ UNCHANGED <<currentPlatform, response, recentErrors, logged, listed,
                 baseVars, schedVars, fnVars, dbVars>>


\* ------------------------------------------------------- specifications

\* the state after construction, the retry counters and the parts below aside
CoreInit ==
  /\ now = 0
  /\ env \in [Platforms -> EnvCookieValues]
  /\ maxAgeEnv \in [Platforms -> MaxAgeEnvValues]
  /\ cookies = [p \in Platforms |-> NoRecord]
  /\ lastRefreshTime = [p \in Platforms |-> Undefined]
  /\ replaced = [c \in Callers |-> TRUE]
  /\ pc = [c \in Callers |-> "idle"]
  /\ phase = [c \in Callers |-> "first"]
  /\ initialized = [c \in Callers |-> FALSE]
  /\ errKind = [c \in Callers |-> "none"]
  /\ refreshOk = [c \in Callers |-> "none"]
  /\ invocations = [c \in Callers |-> 0]
  /\ failures = [c \in Callers |-> 0]
  /\ result = [c \in Callers |-> "none"]
  /\ rpc = "idle"
  /\ rinit = FALSE
  /\ running = FALSE
  /\ jobs = {}
  /\ spc = [t \in SchedPlatforms \X Slots |-> "idle"]
  /\ sretries = [t \in SchedPlatforms \X Slots |-> 0]
  /\ scall = [t \in SchedPlatforms \X Slots |-> NoCall]
  /\ cronTasks = [j \in JobNames |-> 0]

FnIdleInit ==
  /\ failure = [isAxiosError |-> FALSE, response |-> NoResponse, message |-> NoText]
  /\ fnPlatform = CallPlatform
  /\ FnOutInit

\* an empty table cookies
DbInit ==
  /\ rows = << >>
  /\ dbResult = NoDbResult
  /\ lastStore = [p \in DbPlatforms |-> NoStore]

\* server.js line 59, no request answered yet
ServerInit ==
  /\ currentPlatform = "motonet"
  /\ response = NoResponseSent
  /\ cart = NoCart

\* error-monitoring.js line 100
LogInit ==
  /\ recentErrors = << >>
  /\ logged = 0
  /\ listed = << >>

Init ==
  /\ CoreInit
  /\ retryCounters = << >>
  /\ FnIdleInit
  /\ DbInit
  /\ ServerInit
  /\ LogInit

\* one wrapped call at a time, next to a concurrent forced refresh, the clock
\* and the environment
Solo == CHOOSE c \in Callers : \A d \in Callers : c <= d

Next ==
  \/ CallStart(Solo)
  \/ GetEnter(Solo)
  \/ GetAfterInit(Solo)
  \/ RefreshResume(Solo)
  \/ GetAfterRefresh1(Solo)
  \/ GetAfterRefresh2(Solo)
  \/ HttpDone(Solo)
  \/ handleError(Solo)
  \/ AuthRefreshDone(Solo)
  \/ RetryCallback(Solo)
  \/ ForceRefreshBegin
  \/ ForceRefreshEnd
  \/ Tick
  \/ SetEnv

Spec == Init /\ [][Next]_vars

\* the steps of a wrapped call: each is taken once its promise has settled
\* or its timer has fired, which the event loop does for every invocation,
\* refresh and timer that completes
CallStep(c) ==
  \/ GetEnter(c)
  \/ GetAfterInit(c)
  \/ RefreshResume(c)
  \/ GetAfterRefresh1(c)
  \/ GetAfterRefresh2(c)
  \/ HttpDone(c)
  \/ handleError(c)
  \/ AuthRefreshDone(c)
  \/ RetryCallback(c)

LiveSpec == Spec /\ WF_vars(CallStep(Solo))

\* concurrent wrapped calls on one (platform, operation) key, at one instant
RaceNext ==
  \/ \E c \in Callers : CallStart(c)
  \/ \E c \in Callers : GetEnter(c)
  \/ \E c \in Callers : GetAfterInit(c)
  \/ \E c \in Callers : HttpDone(c)
  \/ \E c \in Callers : handleError(c)
  \/ \E c \in Callers : AuthRefreshDone(c)
  \/ \E c \in Callers : RetryCallback(c)

RaceSpec == Init /\ [][RaceNext]_vars

SchedNext ==
  \/ SchedStart
  \/ SchedStop
  \/ \E p \in SchedPlatforms : CronTick(p)
  \/ \E t \in SchedPlatforms \X Slots : ExtractDone(t)
  \/ \E t \in SchedPlatforms \X Slots : StoreDone(t)
  \/ \E t \in SchedPlatforms \X Slots : DelayDone(t)

SchedInit ==
  /\ Init
  /\ env = [p \in Platforms |-> "A"]
  /\ maxAgeEnv = [p \in Platforms |-> 0]

SchedSpec == SchedInit /\ [][SchedNext]_vars


\* handleError on every failure value and platform, from a new instance on
FnInit ==
  /\ CoreInit
  /\ env = [p \in Platforms |-> "A"]
  /\ maxAgeEnv = [p \in Platforms |-> 0]
  /\ failure \in Failures
  /\ fnPlatform \in FnPlatforms
  /\ retryCounters = << >>
  /\ FnOutInit
  /\ DbInit
  /\ ServerInit
  /\ LogInit

FnNext ==
  \/ FnHandleError
  \/ FnSameFailure

FnSpec == FnInit /\ [][FnNext]_vars

\* calculateExponentialBackoff on a new instance, whose counter then grows up
\* to MaxRetryCount
BackoffInit ==
  /\ CoreInit
  /\ env = [p \in Platforms |-> "A"]
  /\ maxAgeEnv = [p \in Platforms |-> 0]
  /\ fnPlatform \in FnPlatforms
  /\ failure = [isAxiosError |-> FALSE, response |-> NoResponse, message |-> NoText]
  /\ retryCounters = << >>
  /\ FnOutInit
  /\ DbInit
  /\ ServerInit
  /\ LogInit

BackoffNext ==
  \/ Backoff
  \/ CounterUp

BackoffSpec == BackoffInit /\ [][BackoffNext]_vars

\* a wrapped adapter method has failed on a new instance, and fails the same
\* way again
AdapterInit ==
  /\ CoreInit
  /\ env = [p \in Platforms |-> "A"]
  /\ maxAgeEnv = [p \in Platforms |-> 0]
  /\ failure \in AdapterFailures
  /\ fnPlatform = failure.platformId
  /\ retryCounters = << >>
  /\ FnOutInit
  /\ DbInit
  /\ ServerInit
  /\ LogInit

AdapterNext ==
  \/ AdapterHandleError
  \/ FnSameFailure

AdapterSpec == AdapterInit /\ [][AdapterNext]_vars

DbNext ==
  \/ DbStore
  \/ DbGet
  \/ DbCleanup
  \/ DbTick

DbSpec == SchedInit /\ [][DbNext]_vars

ServerNext ==
  \/ SwitchPlatform
  \/ GetRecentErrors

ServerSpec == SchedInit /\ [][ServerNext]_vars

\* add-to-cart requests, one at a time, next to switch-platform requests
CartNext ==
  \/ AddToCart
  \/ CartHttpDone
  \/ CartBackoffDone
  \/ SwitchPlatform

CartSpec == SchedInit /\ [][CartNext]_vars

LogNext ==
  \/ LogError
  \/ GetRecentErrors

LogSpec == SchedInit /\ [][LogNext]_vars


\* ------------------------------------------------------------- properties

\* C1: a call invokes the operation at most 1 + maxRetries times, and a call
\* whose every invocation fails invokes it exactly 1 + maxRetries times and
\* then fails with the max-retries-exceeded error.
C1_BoundedRetries ==
  \A c \in Callers :
    pc[c] = "done" =>
      /\ invocations[c] <= 1 + maxRetries
      /\ failures[c] = invocations[c] =>
           /\ invocations[c] = 1 + maxRetries
           /\ result[c] = "exhausted"

\* C2: whenever getLatestCookies returns, the record it returns satisfies
\* now < expiresAt - lookahead and now - lastRefreshTime <= staleWindow.
C2_ReturnedRecordFresh ==
  [][\A c \in Callers :
       pc[c] \in GetPcs /\ pc'[c] = "http" =>
         /\ now' < cookies'[CallPlatform].expiresAt - Lookahead
         /\ now' - lastRefreshTime'[CallPlatform] <= StaleWindow]_vars

\* C3: at most one credential acquisition per platform is in flight at any
\* time.
C3_SingleFlight ==
  \A p \in SchedPlatforms :
    Cardinality({n \in Slots : spc[<<p, n>>] = "extracting"}) <= 1

\* C4: when a wrapped call returns successfully, and no other call on the
\* key is in flight, the retry counter of its key is 0.
C4_CounterZeroAfterSuccess ==
  \A c \in Callers :
    /\ pc[c] = "done"
    /\ result[c] = "ok"
    /\ \A d \in Callers \ {c} : pc[d] \in {"idle", "done"}
    => Counter(CallKey) = 0

\* C5: under any interleaving of concurrent wrapped calls every retry counter
\* stays within 0..maxRetries; a handled failure that finds the counter below
\* maxRetries adds exactly one to it and goes on to its recovery, and one that
\* finds it at maxRetries resets it to 0 and fails the call without invoking
\* the retry callback.
C5_CounterWithinCeiling ==
  [][/\ \A k \in DOMAIN retryCounters' : retryCounters'[k] \in 0..maxRetries
     /\ \A c \in Callers :
          pc[c] = "failed" /\ pc'[c] # "failed" =>
            IF Counter(CallKey) < maxRetries
              THEN /\ Counter(CallKey)' = Counter(CallKey) + 1
                   /\ pc'[c] \in {"auth_refresh", "wait"}
              ELSE /\ Counter(CallKey) = maxRetries
                   /\ Counter(CallKey)' = 0
                   /\ pc'[c] = "done"
                   /\ result'[c] = "exhausted"
                   /\ invocations'[c] = invocations[c]]_vars

\* C5 witness: one call has been failed at the ceiling while another call on
\* the same key is still being recovered.
C5_Witness ==
  \E c, d \in Callers :
    /\ c # d
    /\ pc[c] = "done" /\ result[c] = "exhausted"
    /\ pc[d] = "wait"
    /\ Counter(CallKey) = 0

C8_OnlyExhaustionSurfaces ==
  \A c \in Callers :
    pc[c] = "done" /\ refreshOk[c] = "none" /\ phase[c] # "authRetry" =>
      result[c] \in {"ok", "exhausted"}

\* C9: while the environment holds no cookie no step changes the store (a
\* failing acquisition leaves cookies and lastRefreshTime as they were and a
\* forced refresh then returns false); a step that stores a record sets
\* cookieString, timestamp, expiresAt and lastRefreshTime together, so the
\* record and lastRefreshTime are consistent in every state.
C9_RefreshAllOrNothing ==
  [][LET p == CallPlatform IN
     /\ env[p] = NoCookie => cookies' = cookies /\ lastRefreshTime' = lastRefreshTime
     /\ rpc = "mid" /\ rpc' # "mid" =>
          rpc' = IF rinit THEN "returned_true" ELSE "returned_false"
     /\ rpc # "mid" /\ rpc' = "mid" => rinit' = (env[p] # NoCookie)
     /\ cookies'[p] # cookies[p] =>
          /\ cookies'[p] = [cookieString |-> env[p], timestamp |-> now,
                            expiresAt |-> now + getCookieMaxAge(p)]
          /\ lastRefreshTime'[p] = now
     /\ (cookies'[p] = NoRecord) = (lastRefreshTime'[p] = Undefined)
     /\ cookies'[p] # NoRecord =>
          /\ cookies'[p].expiresAt = cookies'[p].timestamp + getCookieMaxAge(p)
          /\ lastRefreshTime'[p] >= cookies'[p].timestamp]_vars

\* C9 witness: a forced refresh has failed and reported it, and the record
\* stored earlier is still there.
C9_Witness ==
  /\ rpc = "returned_false"
  /\ cookies[CallPlatform] # NoRecord
  /\ now > cookies[CallPlatform].timestamp

\* C10: getLatestCookies refreshes exactly when the record is absent, or
\* now >= expiresAt - lookahead, or now - lastRefreshTime > staleWindow, and
\* otherwise returns the stored record with no acquisition.
C10_RefreshExactlyWhenDue ==
  [][\A c \in Callers :
       pc[c] = "get" /\ pc'[c] # "get" =>
         LET p == CallPlatform
             due == \/ cookies[p] = NoRecord
                    \/ now >= cookies[p].expiresAt - Lookahead
                    \/ now - lastRefreshTime[p] > StaleWindow
         IN  /\ due <=> pc'[c] \in {"get_init", "refresh1", "refresh2"}
             /\ ~due <=> pc'[c] = "http" /\ cookies' = cookies]_vars

\* C11: the error raised when retries are exhausted identifies the platform,
\* the operation, the kind of the last classified failure and the number of
\* attempts: whatever failure leads to a given terminal error has the kind
\* that handleError determined, so the kind can be read off the error.
C11_TerminalErrorCarriesKind ==
  thrown.name = "Error" =>
    \A e \in Failures :
      /\ determineErrorType(e, fnPlatform) \in ErrorKinds
      /\ MaxRetriesExceededError(e, fnPlatform, CallOperation) = thrown
      => determineErrorType(e, fnPlatform) = thrownType

\* C12: for a rate-limiting failure whose response headers carry a numeric
\* retry hint of h seconds (the platform's own header where both are sent),
\* the wait before the retry is the hint's, at least h * 1000 ms, and the
\* computed backoff is used only when no hint is present.
C12_HintBeatsBackoff ==
  LET headers == failure.response.headers
      own == Header(headers, "x-" \o fnPlatform \o "-retry-after")
      hint == IF fnPlatform \in {"motonet", "sryhma", "gigantti"} /\ Truthy(own)
                THEN own
                ELSE Header(headers, "retry-after")
  IN  /\ errorType = "rateLimiting"
      /\ delaySource # "none"
      /\ failure.isAxiosError
      /\ failure.response.hasHeaders
      /\ hint \in {"0", "2", "5", "7"}
      => /\ delaySource = "header"
         /\ retryDelay >= parseIntTimes1000(hint).ms

\* C13 as stated: the non-jittered delay of attempt k is
\* min(maxDelay, baseDelay * 2^(k-1)), i.e. 1000, 2000, 4000, 8000, 16000,
\* 32000 for k = 1..6 and 60000 for k = 7, and with jitter the result lies
\* between baseDelay * 2^(k-1) and 1.3 * baseDelay * 2^(k-1) and never
\* exceeds maxDelay.
C13_JitterAboveUncappedPart ==
  LET k == retryCount(fnPlatform, CallOperation)
      exponentialPart == baseRetryDelay * 2 ^ (k - 1)
      plain == calculateExponentialBackoff(fnPlatform, CallOperation, 0)
  IN  /\ plain = Min(maxRetryDelay, exponentialPart)
      /\ k <= 7 => plain = <<1000, 2000, 4000, 8000, 16000, 32000, 60000>>[k]
      /\ delaySource = "backoff" =>
           /\ exponentialPart <= retryDelay
           /\ 10 * retryDelay <= 13 * exponentialPart
           /\ retryDelay <= maxRetryDelay

\* C13, amended: the non-jittered delay of attempt k is
\* min(maxDelay, baseDelay * 2^(k-1)) (1000, ..., 32000, then 60000 at k = 7),
\* and with jitter the result lies between min(maxDelay, baseDelay * 2^(k-1))
\* and 1.3 * baseDelay * 2^(k-1) and never exceeds maxDelay.
C13_BackoffDoublesUntilCapped ==
  LET k == retryCount(fnPlatform, CallOperation)
      exponentialPart == baseRetryDelay * 2 ^ (k - 1)
      plain == calculateExponentialBackoff(fnPlatform, CallOperation, 0)
  IN  /\ plain = Min(maxRetryDelay, exponentialPart)
      /\ k <= 7 => plain = <<1000, 2000, 4000, 8000, 16000, 32000, 60000>>[k]
      /\ delaySource = "backoff" =>
           /\ Min(maxRetryDelay, exponentialPart) <= retryDelay
           /\ 10 * retryDelay <= 13 * exponentialPart
           /\ retryDelay <= maxRetryDelay

\* the capped attempt has been computed
C13_Witness ==
  /\ retryCount(fnPlatform, CallOperation) = 7
  /\ delaySource = "backoff"
  /\ retryDelay = maxRetryDelay

\* C14: the delay before the j-th retry of a call is computed from
\* attempt = j (about baseDelay before the first retry), also when the call
\* starts after an earlier call on the same key has completed successfully.
C14_AttemptIsRetryIndex ==
  \A c \in Callers :
    pc[c] = "wait" =>
      /\ retryCount(CallPlatform, CallOperation) = failures[c]
      /\ calculateExponentialBackoff(CallPlatform, CallOperation, 0)
           = Min(maxRetryDelay, baseRetryDelay * 2 ^ (failures[c] - 1))

\* C15: determineErrorType classifies any failure that carries no response as
\* network; a response with status 401 or 403 as authentication, whatever its
\* headers; otherwise status 429 or any rate-limit header as rateLimiting,
\* before the 5xx rule; otherwise status 500-599 as server.
C15_ClassificationByResponse ==
  LET r == failure.response
  IN  errorType # "none" =>
        IF ~r.present THEN errorType = "network"
        ELSE IF r.status \in {401, 403} THEN errorType = "authentication"
        ELSE IF r.status = 429 \/ (r.hasHeaders /\ hasRateLimitingHeaders(r.headers, fnPlatform))
          THEN errorType = "rateLimiting"
        ELSE IF r.status >= 500 /\ r.status < 600 THEN errorType = "server"
        ELSE TRUE

\* C16: determineErrorType is total and deterministic: for every failure
\* value and platform it returns exactly one of the five kinds and never
\* raises, the same one for equal inputs, and unknown when no rule matches.
C16_ClassifierTotal ==
  errorType # "none" =>
    /\ errorType \in ErrorKinds
    /\ errorType = determineErrorType(failure, fnPlatform)
    /\ thrown.name # "TypeError"

\* C17: a scheduled refresh that fails after its own retries does not stop
\* the scheduler: the step that fails it leaves running and the registered
\* jobs as they were and touches no other refresh, the platform's next tick
\* can start a refresh, and every refresh that starts gets the full number
\* of retries whatever failed before it.
C17_FailedRefreshLeavesScheduler ==
  [][\A t \in SchedPlatforms \X Slots :
       /\ spc[t] # "failed" /\ spc'[t] = "failed" =>
            /\ running' = running
            /\ jobs' = jobs
            /\ \A u \in (SchedPlatforms \X Slots) \ {t} :
                 spc'[u] = spc[u] /\ sretries'[u] = sretries[u]
            /\ t[1] \in jobs => t[1] \in jobs' /\ FreeSlots(t[1])' # {}
       /\ SchedFree(t[1], t[2]) /\ spc'[t] = "extracting" =>
            sretries'[t] = schedulerMaxRetries]_vars

\* one platform's refresh has failed while the scheduler runs with every job
\* registered and the other platform's refresh is under way
C17_Witness ==
  /\ running
  /\ jobs = SchedPlatforms \cup {"cleanup"}
  /\ spc[<<"motonet", 1>>] = "failed"
  /\ sretries[<<"motonet", 1>>] = 0
  /\ spc[<<"gigantti", 1>>] = "extracting"

\* C18: after storeCookies(platform, s, maxAge) at time t, getLatestCookies(platform)
\* before t + maxAge, with no later store for the platform, returns the
\* record with cookieString = s, createdAt = t and expiresAt = t + maxAge,
\* and every field of the credential record, lastRefreshedAt included,
\* survives the round trip.
C18_StoreGetRoundTrip ==
  \A p \in DbPlatforms :
    /\ dbResult.platform = p
    /\ lastStore[p].stored
    /\ dbResult.at < lastStore[p].t + lastStore[p].maxAge
    => /\ dbResult.value # DbNull
       /\ dbResult.value.cookieString = lastStore[p].cookieString
       /\ dbResult.value.createdAt = lastStore[p].t
       /\ dbResult.value.expiresAt = lastStore[p].t + lastStore[p].maxAge
       /\ "lastRefreshedAt" \in DOMAIN dbResult.value

\* C19: POST /api/switch-platform with a supported platform sets
\* currentPlatform to it and answers success with it; with a missing or
\* unsupported platform it answers 400 'Invalid platform' with the list of
\* supported platforms and leaves currentPlatform unchanged.
C19_SwitchPlatform ==
  [][response' # response \/ logged' # logged \/ currentPlatform' # currentPlatform =>
       IF response'.request \in PLATFORMS
         THEN /\ response'.status = 200
              /\ response'.body = [success |-> TRUE, currentPlatform |-> response'.request]
              /\ currentPlatform' = response'.request
         ELSE /\ response'.status = 400
              /\ response'.body = [error |-> "Invalid platform",
                                   supportedPlatforms |-> {"motonet", "rusta", "sryhma", "gigantti"}]
              /\ currentPlatform' = currentPlatform]_vars

\* an unsupported platform was refused after a switch to gigantti
C19_Witness ==
  /\ response.status = 400
  /\ response.request = "invalid-platform"
  /\ currentPlatform = "gigantti"

\* C20: after any sequence of logError calls the list holds the errors newest
\* first, the one logged last (its message, platform and operation) at index
\* 0, and at most 100 of them, the oldest being dropped when a new one arrives
\* at capacity; getRecentErrors(limit) returns the first min(limit, size)
\* entries in that order, and all of them when called without a limit.
C20_RecentErrorsNewestFirst ==
  [][/\ Len(recentErrors') <= 100
     /\ \A i \in 1..Len(recentErrors') :
          /\ recentErrors'[i].message = "Test error " \o ToString(logged' - i + 1)
          /\ recentErrors'[i].platform = "test-platform"
          /\ recentErrors'[i].operation = "test-operation"
     /\ Len(recentErrors') = IF logged' < 100 THEN logged' ELSE 100
     /\ logged' = logged + 1 =>
          /\ Len(recentErrors) < 100 => SubSeq(recentErrors', 2, Len(recentErrors')) = recentErrors
          /\ Len(recentErrors) = 100 =>
               SubSeq(recentErrors', 2, 100) = SubSeq(recentErrors, 1, 99)
     /\ listed' # << >> =>
          LET limit == IF listed'[1].argument.given THEN listed'[1].argument.limit ELSE 100
              size == Len(recentErrors')
          IN  listed'[1].errors = SubSeq(recentErrors', 1, IF limit < size THEN limit ELSE size)
    ]_vars

\* more than a hundred errors were logged and the first five were asked for
C20_Witness ==
  /\ logged > MAX_RECENT_ERRORS
  /\ Len(recentErrors) = MAX_RECENT_ERRORS
  /\ recentErrors[1].message = "Test error " \o ToString(logged)
  /\ listed # << >>
  /\ listed[1].argument = [given |-> TRUE, limit |-> 5]
  /\ Len(listed[1].errors) = 5

\* C21: one call of Scheduler.refreshCookies makes at most
\* config.scheduler.maxRetries acquisition attempts; it ends at the first
\* attempt that succeeds, having stored exactly once; it has waited once
\* between two consecutive attempts and not after the last one; and when
\* every attempt failed it has stored nothing and throws the error of the
\* last attempt.
C21_RefreshCookiesRetryLoop ==
  \A t \in SchedPlatforms \X Slots :
    /\ scall[t].attempts <= schedulerMaxRetries
    /\ scall[t].stores = (IF spc[t] = "succeeded" THEN 1 ELSE 0)
    /\ spc[t] \in {"extracting", "storing", "succeeded", "failed"} =>
         scall[t].delays = scall[t].attempts - 1
    /\ spc[t] = "delay" =>
         scall[t].delays = scall[t].attempts /\ scall[t].attempts < schedulerMaxRetries
    /\ spc[t] = "failed" =>
         /\ scall[t].attempts = schedulerMaxRetries
         /\ scall[t].thrown = scall[t].attempts
    /\ spc[t] # "failed" => scall[t].thrown = NoLastError

\* one call has failed on its last attempt after two delays, and another has
\* succeeded on its second attempt after one delay
C21_Witness ==
  /\ spc[<<"motonet", 1>>] = "failed"
  /\ scall[<<"motonet", 1>>].attempts = schedulerMaxRetries
  /\ scall[<<"motonet", 1>>].delays = schedulerMaxRetries - 1
  /\ spc[<<"gigantti", 1>>] = "succeeded"
  /\ scall[<<"gigantti", 1>>].attempts = 2
  /\ scall[<<"gigantti", 1>>].delays = 1
  /\ scall[<<"gigantti", 1>>].stores = 1

\* running is true exactly when the job table holds the refresh job of every
\* platform and the cleanup job, the table is empty otherwise, and each job
\* name has one scheduled task while running and none while stopped
SchedulerRegistered ==
  /\ jobs = (IF running THEN JobNames ELSE {})
  /\ \A j \in JobNames : cronTasks[j] = (IF running THEN 1 ELSE 0)

\* C22: start() registers one refresh job per platform and one cleanup job and
\* launches one immediate refresh per platform; start() while running and
\* stop() while stopped change nothing; after stop() the job table is empty
\* and running is false; so in every state running is true iff the jobs are
\* registered, and no job name ever has two scheduled tasks.
C22_StartStopIdempotent ==
  /\ SchedulerRegistered
  /\ [][/\ SchedulerRegistered'
        /\ ~running /\ running' =>
             \A p \in SchedPlatforms :
               \E n \in Slots :
                 /\ SchedFree(p, n)
                 /\ spc'[<<p, n>>] = LaunchedPc
                 /\ scall'[<<p, n>>] = LaunchedCall
                 /\ \A m \in Slots \ {n} :
                      spc'[<<p, m>>] = spc[<<p, m>>] /\ scall'[<<p, m>>] = scall[<<p, m>>]
        /\ running /\ ~running' =>
             spc' = spc /\ scall' = scall
        /\ running' = running =>
             jobs' = jobs /\ cronTasks' = cronTasks]_vars

\* the scheduler was started and then stopped while the immediate refresh of
\* one platform was under way and that of the other had ended
C22_Witness ==
  /\ ~running
  /\ jobs = {}
  /\ \A j \in JobNames : cronTasks[j] = 0
  /\ spc[<<"motonet", 1>>] = "storing"
  /\ spc[<<"gigantti", 1>>] = "succeeded"

\* the rows of table cookies, as a set
RowSet == {rows[i] : i \in 1..Len(rows)}

\* C23: a cleanup pass removes only rows whose expires_at is earlier than
\* now, never a row that has not expired, and adds none; and for every
\* platform getLatestCookies resolves to the same value right before and
\* right after the pass.
C23_CleanupKeepsLatest ==
  [][rows' # rows /\ Len(rows') <= Len(rows) =>
       /\ RowSet' \subseteq RowSet
       /\ \A r \in RowSet \ RowSet' : r.expires_at < now
       /\ \A r \in RowSet : r.expires_at >= now => r \in RowSet'
       /\ now' = now
       /\ \A p \in DbPlatforms :
            getLatestCookiesResults(p)' = getLatestCookiesResults(p)]_vars

\* a cleanup pass has removed the first row stored and left the second, which
\* is still valid and is what getLatestCookies returned for its platform
C23_Witness ==
  /\ Len(rows) = 1
  /\ rows[1].id = 2
  /\ rows[1].expires_at > now
  /\ dbResult.platform = rows[1].platform
  /\ dbResult.at = now
  /\ dbResult.value = getLatestCookiesResult(rows[1].platform, 1)

\* C24: an add-to-cart request uses one platform throughout: the target URL
\* and cookie, the payload format of each attempt and the platform named in
\* the response are those of the platform that was current when the request
\* was accepted, whatever switch-platform requests are processed meanwhile.
C24_CartOnePlatform ==
  /\ cart.config # NoText => cart.config = cart.accepted
  /\ cart.payload # NoText => cart.payload = PayloadFormat(cart.accepted)
  /\ cart.answer.platform # NoText => cart.answer.platform = cart.accepted

\* C25: a failure raised inside an adapter method by a response with status
\* 401/403, 429 or 5xx, or by a transport failure with no response, is
\* classified by the wrapped call exactly as determineErrorType classifies
\* the raw HTTP failure.
C25_AdapterFailureKeepsClass ==
  /\ "originalError" \in DOMAIN failure
  /\ errorType # "none"
  /\ \/ ~failure.originalError.response.present
     \/ failure.originalError.response.status \in {401, 403, 429}
     \/ /\ failure.originalError.response.status >= 500
        /\ failure.originalError.response.status < 600
  => errorType = determineErrorType(failure.originalError, fnPlatform)

C27_OneAcquisitionPerGet ==
  [][\A c \in Callers :
       pc[c] \in {"get_init", "get_r1"} => pc'[c] \notin {"refresh1", "refresh2"}]_vars

\* C28: no wait before a retry exceeds maxRetryDelay, whichever recovery
\* branch computes it, a rate-limit failure with a server-supplied retry hint
\* above maxRetryDelay included.
C28_WaitNeverAboveMaxDelay ==
  delaySource # "none" => retryDelay <= maxRetryDelay

\* C29: once stop() has returned, and until the next start(), no
\* refreshCookies call starts a further acquisition attempt or stores a
\* further cookie record, a call that was waiting between attempts or still
\* running its first attempt when stop() was called included.
C29_StopEndsRefreshes ==
  [][~running /\ ~running' =>
       \A t \in SchedPlatforms \X Slots :
         /\ scall'[t].attempts = scall[t].attempts
         /\ scall'[t].stores = scall[t].stores]_vars

====
